---------------------------- MODULE Spec2Model ----------------------------
(***************************************************************************)
(* A model of internet-monitor.py: the probe aggregation, the outage       *)
(* tracker (InternetMonitor.detect_status_change), the Google Sheets       *)
(* logger with its retry loop and in-memory queue of failed uploads, the   *)
(* local backup file, the backup recovery pass and the run loop.           *)
(*                                                                         *)
(* One check cycle (run_check and the loop body around it) is one action.  *)
(* The remote spreadsheet answers each API call with an outcome taken      *)
(* from a script the environment chooses for the cycle.                    *)
(***************************************************************************)
EXTENDS Integers, Sequences, FiniteSets, TLC

\* ------------------------------------------------------------------ bounds

\* Check cycles one behaviour of the run loop holds (initial check
\* included), and one behaviour of the process life cycle.
MaxCycles == 5
MaxLifeCycles == 3

\* The healing specification: the check cycles before the sink heals and
\* the check cycles run after it has.
MaxFaultyCycles == 3
MaxHealedCycles == 2

\* Length of the per-call part of a sink script; later calls get its tail.
ScriptLen == 1

\* Process restarts one behaviour may hold.
MaxRestarts == 1

\* Targets configured per probe kind in the probe specification.
NumTargets == 2

\* The send specification: the largest attempt limit tried and the length of
\* the per-call part of its sink scripts.
MaxAttempts == 4
SendScriptLen == 2

\* The recovery specification: the records in the backup and the length of
\* the per-call part of its sink scripts.
NumRecords == 3
RecoveryScriptLen == 3

\* The queue specification: the most uploads the queue holds before the
\* pass.
MaxQueued == 2

\* The store specification: the failed sends in a row.
MaxStores == 6

\* The outage-end specification: the most rows the Outages sheet holds
\* before the delivery.
MaxOutageRows == 3

\* Seconds a cycle has run when it reads the clock again (datetime.now()
\* after the cycle's timestamp was taken): any positive amount.
Elapsed == 1

\* Seconds a slow cycle takes beyond the sleep (probes that time out, retries
\* that back off, a long recovery pass).
SlowCycle == 120

\* Seconds the host's wall clock is set back while the loop sleeps (a
\* correction by the time service or by hand).
ClockSetBack == 180

\* Scaled program constants: the backup cap (1000), the queue cap (100) and
\* what a queue cleanup keeps (50), the period of the loop's reprocessing (10).
BackupCap == 4
QueueCap == 4
QueueKeep == 2
ReprocessEvery == 2

\* ------------------------------------------------------- program constants

CHECK_INTERVAL == 60
GiveUpRetries == 5
RecoveryCooldown == 300
OnlineRetries == 3
RecoveryRetries == 2
BackoffFactor == 2
RateLimitFactor == 5

LOCATION_ID == "house1"

\* ------------------------------------------------------------------ values

\* Python's None and a present value.
None == <<>>
Some(x) == <<x>>
IsSome(o) == o # <<>>
Val(o) == o[1]

\* What one spreadsheet API call does: "ok" applies it and answers; "fail"
\* raises without applying it; "lost" applies it and raises (the answer is
\* lost on the way back).
Outcomes == {"ok", "fail", "lost"}

\* The classes of error _execute_with_retry tells apart: HttpError 401/403,
\* HttpError 429, any other HttpError, any other exception.
Faults == {"auth", "rate_limit", "http", "general"}

\* ------------------------------------------------------------- ISO strings

\* datetime.isoformat(): the wall-clock fields, then "+00:00" for an aware
\* UTC datetime and nothing for a naive local one.  wall counts seconds.
IsoUtc(t) == [wall |-> t, aware |-> TRUE]

IsoLocal(t, offset) == [wall |-> t + offset, aware |-> FALSE]

\* datetime.fromisoformat(s.replace('Z', '+00:00')) as seconds since the epoch
\* of an aware UTC string.
FromIso(s) == s.wall

\* Python's < on two ISO strings: the fixed-width wall-clock fields compare
\* first; of two strings with equal fields the one without suffix is a
\* proper prefix of the other and so the smaller.
StrLess(a, b) ==
    \/ a.wall < b.wall
    \/ a.wall = b.wall /\ ~a.aware /\ b.aware

\* --------------------------------------------------------- sequence helpers

\* seq[-n:] of Python: the last n elements (all of them when there are fewer).
LastN(seq, n) ==
    IF Len(seq) <= n THEN seq ELSE SubSeq(seq, Len(seq) - n + 1, Len(seq))

\* list.remove(x): the list without its first element equal to x.
RemoveFirst(seq, x) ==
    IF \E i \in 1..Len(seq) : seq[i] = x
    THEN LET i == CHOOSE k \in 1..Len(seq) :
                      seq[k] = x /\ \A j \in 1..(k - 1) : seq[j] # x
         IN  SubSeq(seq, 1, i - 1) \o SubSeq(seq, i + 1, Len(seq))
    ELSE seq

RECURSIVE RemoveEach(_, _)
\* "for upload in successful_uploads: if upload in q: q.remove(upload)".
RemoveEach(seq, gone) ==
    IF gone = <<>> THEN seq
    ELSE RemoveEach(RemoveFirst(seq, Head(gone)), Tail(gone))

\* ------------------------------------------------------- the sink (sheets)

\* The state one cycle threads through the logger: the two sheets, the
\* logger's fields, the clock reading and UTC offset of the host, the rest of
\* the cycle's sink script, and what the logger printed about lost uploads.
\*   sheets                 name -> rows appended so far
\*   failed_uploads         GoogleSheetsLogger.failed_uploads
\*   last_successful_upload GoogleSheetsLogger.last_successful_upload
\*   script, tail           outcomes of the next API calls, then of all later
\*   gave_up, evicted       uploads dropped after five retries / by a cleanup
\*   end_first              outage starts whose end was sent to the sink while
\*                          no delivery of the start had completed
\*   fault                  the class of the errors the sink raises
\*   calls                  the operations invoked so far, oldest first
\*   sleeps                 the backoff sleeps of the retry loop so far
\*   exhausted              the uploads whose send used up its attempts

\* The outcome of the next API call, and the script after it.
NextOutcome(S) == IF S.script # <<>> THEN Head(S.script) ELSE S.tail

Consume(S) == [S EXCEPT !.script = IF @ # <<>> THEN Tail(@) ELSE @]

\* values().append(...).execute(): one API call adding a row at the end.
AppendRow(S, sheet_name, row_data) ==
    LET o  == NextOutcome(S)
        S1 == Consume(S)
    IN  [s  |-> IF o \in {"ok", "lost"}
                THEN [S1 EXCEPT !.sheets[sheet_name] = Append(@, row_data)]
                ELSE S1,
         ok |-> o = "ok"]

\* The Connectivity_Checks row of a check result (its summary columns).
CheckRow(data) ==
    [timestamp |-> data.timestamp, location_id |-> data.location_id,
     connected |-> data.connected]

LogConnectivityCheckDirect(S, data) ==
    AppendRow(S, "Connectivity_Checks", CheckRow(data))

\* The Outages row of an outage that has started: end and duration empty.
OngoingRow(data) ==
    [location_id |-> data.location_id, start_time |-> data.start_time,
     end_time |-> None, duration_seconds |-> None, status |-> "ONGOING"]

ResolvedRow(data) ==
    [location_id |-> data.location_id, start_time |-> data.start_time,
     end_time |-> Some(data.end_time),
     duration_seconds |-> Some(data.duration_seconds), status |-> "RESOLVED"]

\* Whether a delivery of the outage's start has completed: a row of it is in
\* the sheet.
StartRowPresent(S, data) ==
    \E i \in 1..Len(S.sheets["Outages"]) :
        /\ S.sheets["Outages"][i].location_id = data.location_id
        /\ S.sheets["Outages"][i].start_time = data.start_time

LogOutageStartDirect(S, data) == AppendRow(S, "Outages", OngoingRow(data))

\* A mutation of MatchesOngoing: the status is not looked at.
MatchesAnyStatus(row, data) ==
    /\ row.location_id = data.location_id
    /\ row.start_time = data.start_time

\* The row _log_outage_end_direct updates: the first one of this location and
\* start time that is still ONGOING.
MatchesOngoing(row, data) ==
    /\ row.location_id = data.location_id
    /\ row.start_time = data.start_time
    /\ row.status = "ONGOING"

\* _log_outage_end_direct: one call reads the sheet; a second one updates the
\* matching row in place or, when there is none, appends a complete row.
LogOutageEndDirect(S, data) ==
    LET S0   == IF StartRowPresent(S, data) THEN S
                ELSE [S EXCEPT !.end_first = @ \cup {data.start_time}]
        get  == NextOutcome(S0)
        S1   == Consume(S0)
        rows == S1.sheets["Outages"]
        hits == {i \in 1..Len(rows) : MatchesOngoing(rows[i], data)}
    IN  IF get # "ok" THEN [s |-> S1, ok |-> FALSE]
        ELSE IF hits # {}
        THEN LET i  == CHOOSE k \in hits : \A j \in hits : k <= j
                 o  == NextOutcome(S1)
                 S2 == Consume(S1)
             IN  [s  |-> IF o \in {"ok", "lost"}
                         THEN [S2 EXCEPT !.sheets["Outages"][i] =
                                             ResolvedRow(data)]
                         ELSE S2,
                  ok |-> o = "ok"]
        ELSE AppendRow(S1, "Outages", ResolvedRow(data))

\* What identifies an upload in the logger's messages about it: its kind and
\* the second its record or outage began.
UploadKey(operation_type, data) ==
    <<operation_type,
      IF operation_type = "connectivity_check"
      THEN FromIso(data.timestamp) ELSE FromIso(data.start_time)>>

\* The operation of an upload, by its operation_type.
Operation(S, operation_type, data) ==
    CASE operation_type = "connectivity_check" ->
             LogConnectivityCheckDirect(S, data)
      [] operation_type = "outage_start" -> LogOutageStartDirect(S, data)
      [] operation_type = "outage_end" -> LogOutageEndDirect(S, data)

\* One invocation of the direct operation of an upload.
DirectOp(S, operation_type, data) ==
    Operation([S EXCEPT !.calls = Append(@, UploadKey(operation_type, data))],
              operation_type, data)

\* ------------------------------------------------- the failed-upload queue

\* A mutation of StoreFailedUpload: the queue is cut only once it holds more
\* than QueueCap entries.
StoreFailedUploadLateCut(S, operation_type, data) ==
    LET q    == S.failed_uploads
        full == Len(q) > QueueCap
        kept == IF full THEN LastN(q, QueueKeep) ELSE q
        new  == [timestamp |-> IsoLocal(S.now, S.tz),
                 operation_type |-> operation_type,
                 data |-> data,
                 retry_count |-> 0]
    IN  [S EXCEPT !.failed_uploads = Append(kept, new)]

\* _store_failed_upload: a full queue is first cut to its newest entries.
StoreFailedUpload(S, operation_type, data) ==
    LET q    == S.failed_uploads
        full == Len(q) >= QueueCap
        kept == IF full THEN LastN(q, QueueKeep) ELSE q
        cut  == IF full
                THEN {UploadKey(q[i].operation_type, q[i].data) :
                          i \in 1..(Len(q) - Len(kept))}
                ELSE {}
        new  == [timestamp |-> IsoLocal(S.now, S.tz),
                 operation_type |-> operation_type,
                 data |-> data,
                 retry_count |-> 0]
    IN  [S EXCEPT !.failed_uploads = Append(kept, new),
                  !.evicted = @ \cup cut]

\* A mutation of Retried: the retry count is left as it was.
RetriedUncounted(upload) == upload

\* "upload['retry_count'] = upload.get('retry_count', 0) + 1".
Retried(upload) == [upload EXCEPT !.retry_count = @ + 1]

\* One entry of the loop of _process_failed_uploads.  st holds the logger
\* state (s), the queue with the retry counts raised so far (q) and the
\* uploads to remove after the loop (done); upload is entry i with its count
\* raised and r what its direct operation returned.
RetryResult(st, i, upload, r) ==
    [s    |-> IF ~r.ok /\ upload.retry_count >= GiveUpRetries
              THEN [r.s EXCEPT !.gave_up = @ \cup
                        {UploadKey(upload.operation_type, upload.data)}]
              ELSE r.s,
     q    |-> [st.q EXCEPT ![i] = upload],
     done |-> IF r.ok \/ upload.retry_count >= GiveUpRetries
              THEN Append(st.done, upload)
              ELSE st.done]

ProcessEntry(st, i) ==
    RetryResult(st, i, Retried(st.q[i]),
                DirectOp(st.s, st.q[i].operation_type, st.q[i].data))

RECURSIVE ProcessLoop(_, _)
\* The loop of _process_failed_uploads from entry i on, and the removal of
\* the uploads that went through or were given up.
ProcessLoop(st, i) ==
    IF i > Len(st.q)
    THEN [st.s EXCEPT !.failed_uploads = RemoveEach(st.q, st.done)]
    ELSE ProcessLoop(ProcessEntry(st, i), i + 1)

ProcessFailedUploads(S) ==
    IF S.failed_uploads = <<>> THEN S
    ELSE ProcessLoop([s |-> S, q |-> S.failed_uploads, done |-> <<>>], 1)

\* ---------------------------------------------------------- the retry loop

\* A mutation of AfterSuccess: the queue is not reprocessed.
AfterSuccessNoReprocess(S) ==
    [S EXCEPT !.last_successful_upload = Some(IsoLocal(S.now, S.tz))]

\* What _execute_with_retry does after an operation returned: the time of
\* the success is recorded and the queue reprocessed.
AfterSuccess(S) ==
    ProcessFailedUploads(
        [S EXCEPT !.last_successful_upload = Some(IsoLocal(S.now, S.tz))])

\* A mutation of Backoff: the same wait before every retry.
BackoffFlat(fault, attempt) ==
    IF fault = "rate_limit" THEN RateLimitFactor ELSE 1

\* The seconds the retry loop sleeps after failed attempt number attempt
\* (counted from 0): backoff_factor ** attempt, five times that after a rate
\* limit error.
Backoff(fault, attempt) ==
    IF fault = "rate_limit"
    THEN (BackoffFactor ^ attempt) * RateLimitFactor
    ELSE BackoffFactor ^ attempt

\* The except branches of _execute_with_retry after failed attempt number
\* attempt: the sleep, unless it was the last attempt.
SleepAfter(S, attempt, max_retries) ==
    IF attempt < max_retries - 1
    THEN [S EXCEPT !.sleeps = Append(@, Backoff(S.fault, attempt))]
    ELSE S

RECURSIVE ExecuteAttempts(_, _, _, _, _), AfterAttempt(_, _, _, _, _)
\* _execute_with_retry from attempt number attempt on; when no attempt
\* succeeds the caller gets the exception (ok = FALSE).
ExecuteAttempts(S, operation_type, data, attempt, max_retries) ==
    IF attempt >= max_retries
    THEN [s  |-> [S EXCEPT !.exhausted =
                      Append(@, UploadKey(operation_type, data))],
          ok |-> FALSE]
    ELSE AfterAttempt(DirectOp(S, operation_type, data), operation_type,
                      data, attempt, max_retries)

\* The attempt's operation returned r.
AfterAttempt(r, operation_type, data, attempt, max_retries) ==
    IF r.ok THEN [s |-> AfterSuccess(r.s), ok |-> TRUE]
    ELSE ExecuteAttempts(SleepAfter(r.s, attempt, max_retries),
                         operation_type, data, attempt + 1, max_retries)

ExecuteWithRetry(S, operation_type, data, max_retries) ==
    ExecuteAttempts(S, operation_type, data, 0, max_retries)

\* The except branch of log_connectivity_check, log_outage_start and
\* log_outage_end: an upload that used up its attempts is queued.
StoreIfFailed(r, operation_type, data) ==
    IF r.ok THEN r.s ELSE StoreFailedUpload(r.s, operation_type, data)

\* The upload with the default number of attempts.
LogWithRetry(S, operation_type, data) ==
    StoreIfFailed(ExecuteWithRetry(S, operation_type, data, OnlineRetries),
                  operation_type, data)

LogConnectivityCheck(S, data) == LogWithRetry(S, "connectivity_check", data)

LogOutageStart(S, location_id, start_time) ==
    LogWithRetry(S, "outage_start",
                 [location_id |-> location_id, start_time |-> start_time])

LogOutageEnd(S, location_id, start_time, end_time, duration_seconds) ==
    LogWithRetry(S, "outage_end",
                 [location_id |-> location_id, start_time |-> start_time,
                  end_time |-> end_time,
                  duration_seconds |-> duration_seconds])

\* ------------------------------------------------------ the recovery pass

RECURSIVE InsertByTimestamp(_, _)
\* A record put into a list sorted by timestamp, after the records that do
\* not compare greater (sorted() is stable).
InsertByTimestamp(sorted_data, record) ==
    IF sorted_data = <<>> THEN <<record>>
    ELSE IF StrLess(record.timestamp, Head(sorted_data).timestamp)
    THEN <<record>> \o sorted_data
    ELSE <<Head(sorted_data)>> \o InsertByTimestamp(Tail(sorted_data), record)

RECURSIVE SortByTimestamp(_)
\* sorted(backup_data, key=timestamp).
SortByTimestamp(backup_data) ==
    IF backup_data = <<>> THEN <<>>
    ELSE InsertByTimestamp(
             SortByTimestamp(SubSeq(backup_data, 1, Len(backup_data) - 1)),
             backup_data[Len(backup_data)])

\* The upload data of a record's status change.
StatusChangeData(status_change) ==
    IF status_change.type = "outage_start"
    THEN [location_id |-> status_change.location_id,
          start_time |-> status_change.timestamp]
    ELSE [location_id |-> status_change.location_id,
          start_time |-> status_change.outage_start,
          end_time |-> status_change.timestamp,
          duration_seconds |-> status_change.duration_seconds]

\* The status change of a record whose check row upload returned c: it is
\* sent unless that upload used up its attempts (the loop then counts an
\* error and goes on with the next record).
RecoverStatusChange(c, record) ==
    IF ~c.ok \/ ~IsSome(record.status_change) THEN c.s
    ELSE ExecuteWithRetry(c.s, Val(record.status_change).type,
                          StatusChangeData(Val(record.status_change)),
                          RecoveryRetries).s

\* One record of the recovery loop: skipped when its timestamp compares below
\* the last successful upload; else its check row is sent, then its status
\* change.
RecoverRecord(S, record) ==
    IF /\ IsSome(S.last_successful_upload)
       /\ StrLess(record.timestamp, Val(S.last_successful_upload))
    THEN S
    ELSE RecoverStatusChange(
             ExecuteWithRetry(S, "connectivity_check", record,
                              RecoveryRetries),
             record)

RECURSIVE RecoverLoop(_, _)
RecoverLoop(S, sorted_data) ==
    IF sorted_data = <<>> THEN S
    ELSE RecoverLoop(RecoverRecord(S, Head(sorted_data)), Tail(sorted_data))

\* recover_from_backup.
RecoverFromBackup(S, backup_data) ==
    RecoverLoop(S, SortByTimestamp(backup_data))

\* ------------------------------------------------------- probe aggregation

\* any(result.get('success', False) for result in results).
AnySuccess(results) == \E i \in 1..Len(results) : results[i].success

\* A mutation of OverallConnected: "or" for "and".
OverallConnectedOr(ping_success, http_success, dns_success) ==
    ping_success \/ (http_success \/ dns_success)

\* overall_connected of comprehensive_check.
OverallConnected(ping_success, http_success, dns_success) ==
    ping_success /\ (http_success \/ dns_success)

\* The check result comprehensive_check returns for the probe results of a
\* cycle that started at second t.
CheckResult(t, ping_results, http_results, dns_results) ==
    [timestamp |-> IsoUtc(t),
     location_id |-> LOCATION_ID,
     connected |-> OverallConnected(AnySuccess(ping_results),
                                    AnySuccess(http_results),
                                    AnySuccess(dns_results)),
     status_change |-> None]

\* The verdicts a cycle can reach: overall_connected over every combination
\* of the three kinds' successes.
PossibleVerdicts ==
    {OverallConnected(p, h, d) : p \in BOOLEAN, h \in BOOLEAN, d \in BOOLEAN}

\* ------------------------------------------------------- the outage tracker

\* The monitor's fields one cycle threads through its methods:
\*   last_status, outage_start_time, connectivity_restored_recently,
\*   last_backup_recovery    the fields of InternetMonitor
\*   sheets_logger           whether a GoogleSheetsLogger was built
\*   log                     the logger and sink state (S above)

OutageStartEvent(timestamp) ==
    [type |-> "outage_start", timestamp |-> timestamp,
     location_id |-> LOCATION_ID]

\* A mutation of OutageEndEvent: the subtraction the other way round.
OutageEndEventReversed(timestamp, outage_start) ==
    [type |-> "outage_end", timestamp |-> timestamp,
     location_id |-> LOCATION_ID, outage_start |-> outage_start,
     duration_seconds |-> FromIso(outage_start) - FromIso(timestamp)]

OutageEndEvent(timestamp, outage_start) ==
    [type |-> "outage_end", timestamp |-> timestamp,
     location_id |-> LOCATION_ID, outage_start |-> outage_start,
     duration_seconds |-> FromIso(timestamp) - FromIso(outage_start)]

\* A mutation of ConnectionLost: the last status is not looked at.
ConnectionLostAnyDown(M, current_status) == ~current_status

\* A mutation of ConnectionLost: the last status negated.
ConnectionLostFromDown(M, current_status) ==
    ~Val(M.last_status) /\ ~current_status

\* "self.last_status and not current_status".
ConnectionLost(M, current_status) == Val(M.last_status) /\ ~current_status

\* A mutation of ConnectionRestored: the "not" is missing.
ConnectionRestoredNoNot(M, current_status) ==
    Val(M.last_status) /\ current_status

\* "not self.last_status and current_status".
ConnectionRestored(M, current_status) ==
    ~Val(M.last_status) /\ current_status

\* A mutation of OutageBegun: the flag of a restored connection is kept.
OutageBegunKeepsFlag(M, timestamp) ==
    [M EXCEPT !.outage_start_time = Some(timestamp)]

\* The fields the "connection lost" branch sets first.
OutageBegun(M, timestamp) ==
    [M EXCEPT !.outage_start_time = Some(timestamp),
              !.connectivity_restored_recently = FALSE]

\* detect_status_change: the monitor afterwards and the event it returns.
DetectStatusChange(M, current_status, timestamp) ==
    IF M.last_status = None
    THEN [m |-> [M EXCEPT !.last_status = Some(current_status)],
          status_change |-> None]
    ELSE IF ConnectionLost(M, current_status)
    THEN [m |-> [OutageBegun(M, timestamp) EXCEPT
                   !.log = IF M.sheets_logger
                           THEN LogOutageStart(@, LOCATION_ID, timestamp)
                           ELSE @,
                   !.last_status = Some(current_status)],
          status_change |-> Some(OutageStartEvent(timestamp))]
    ELSE IF ConnectionRestored(M, current_status)
    THEN IF IsSome(M.outage_start_time)
         THEN LET ev == OutageEndEvent(timestamp, Val(M.outage_start_time))
              IN  [m |-> [M EXCEPT
                            !.connectivity_restored_recently = TRUE,
                            !.log = IF M.sheets_logger
                                    THEN LogOutageEnd(@, LOCATION_ID,
                                                      ev.outage_start,
                                                      timestamp,
                                                      ev.duration_seconds)
                                    ELSE @,
                            !.outage_start_time = None,
                            !.last_status = Some(current_status)],
                   status_change |-> Some(ev)]
         ELSE [m |-> [M EXCEPT !.connectivity_restored_recently = TRUE,
                               !.last_status = Some(current_status)],
               status_change |-> None]
    ELSE [m |-> [M EXCEPT !.last_status = Some(current_status)],
          status_change |-> None]

\* --------------------------------------------------------- the backup file

\* The backup file: absent, a JSON list of records (data), or text that does
\* not parse (what a write cut short leaves).
AbsentFile == [state |-> "absent", data |-> <<>>]
JsonFile(data) == [state |-> "json", data |-> data]
CorruptFile == [state |-> "corrupt", data |-> <<>>]

\* A mutation of SaveLocalBackup: the list is never cut.
SaveLocalBackupNoCap(file, data) ==
    IF file.state = "corrupt" THEN file
    ELSE JsonFile(Append(file.data, data))

\* save_local_backup: the file afterwards.  A file that does not parse makes
\* json.load raise; the handler logs the error and the file is left as it is.
SaveLocalBackup(file, data) ==
    IF file.state = "corrupt" THEN file
    ELSE JsonFile(LastN(Append(file.data, data), BackupCap))

\* A mutation of CooldownOver: no window.
CooldownOverAlways(M) == TRUE

\* "we haven't done a recovery recently".
CooldownOver(M) ==
    \/ M.last_backup_recovery = None
    \/ M.log.now - Val(M.last_backup_recovery) > RecoveryCooldown

\* attempt_backup_recovery: the monitor afterwards.
AttemptBackupRecovery(M, file) ==
    IF ~M.sheets_logger THEN M
    ELSE IF M.connectivity_restored_recently /\ CooldownOver(M)
    THEN IF file.state = "json" /\ file.data # <<>>
         THEN [M EXCEPT !.log = RecoverFromBackup(@, file.data),
                        !.last_backup_recovery = Some(M.log.now),
                        !.connectivity_restored_recently = FALSE]
         ELSE M
    ELSE M

\* ------------------------------------------------------------ a check cycle

\* The result with the status change detect_status_change returned (d).
WithStatusChange(d, result) ==
    [m |-> d.m,
     result |-> [result EXCEPT !.status_change = d.status_change]]

\* run_check up to and including detect_status_change: the monitor and the
\* result with its status change.
CheckAndDetect(M, result) ==
    WithStatusChange(
        DetectStatusChange(M, result.connected, result.timestamp), result)

LogCheckIfConfigured(M, result) ==
    IF M.sheets_logger
    THEN [M EXCEPT !.log = LogConnectivityCheck(@, result)]
    ELSE M

RecoverIfRestored(M, file) ==
    IF M.connectivity_restored_recently
    THEN AttemptBackupRecovery(M, file)
    ELSE M

\* run_check after the backup was saved: the upload of the check and the
\* recovery attempt.
LogAndRecover(M, result, file) ==
    RecoverIfRestored(LogCheckIfConfigured(M, result), file)

RunAfterSave(cd, file) ==
    [m |-> LogAndRecover(cd.m, cd.result, file),
     file |-> file,
     result |-> cd.result,
     offered |-> cd.m.log.calls]

RunAfterDetect(cd, file) == RunAfterSave(cd, SaveLocalBackup(file, cd.result))

\* run_check: the monitor, the backup file and the result afterwards.
RunCheck(M, file, result) == RunAfterDetect(CheckAndDetect(M, result), file)

\* The loop body of run_continuous after run_check: every ReprocessEvery-th
\* check the queue of failed uploads is processed.
PeriodicReprocess(M, count) ==
    IF count % ReprocessEvery = 0 /\ M.sheets_logger
    THEN [M EXCEPT !.log = ProcessFailedUploads(@)]
    ELSE M

\* ------------------------------------------------------------------- state

VARIABLES
    pc,                \* "start": before the initial check; "loop": asleep
                       \* between checks; "exited": the process has ended
    clock,             \* UTC second at which the last cycle began
    tz,                \* the host's UTC offset in seconds
    budget,            \* check cycles the behaviour may still begin
    restarts,          \* process restarts so far
    sheets_logger,     \* InternetMonitor.sheets_logger is not None
    last_status,
    outage_start_time,
    connectivity_restored_recently,
    last_backup_recovery,
    check_count,
    failed_uploads,
    last_successful_upload,
    sheets,            \* the spreadsheet: sheet name -> rows
    backup_file,       \* monitor_data/connectivity_backup.json
    last_result,       \* what the last completed run_check returned
    events,            \* status changes detect_status_change has returned
    verdicts,          \* verdicts detect_status_change was called with
                       \*   (both of this process, oldest first)
    gave_up,           \* uploads the queue dropped after GiveUpRetries
    evicted,           \* uploads a queue cleanup dropped
    end_first,         \* outages whose end was sent before their start
    ping_results,      \* the probe results of the last comprehensive_check
    http_results,
    dns_results,
    check_result,      \* and the result it returned
    probes,            \* what each probe of that check met, by kind
    recoveries,        \* the recovery passes this process has started: the
                       \*   clock reading and the number of the check cycle
    appended,          \* the record save_local_backup had just returned for
                       \*   when the process was killed
    offered,           \* the operations the last cycle had invoked on the
                       \*   sink when it called save_local_backup
    send_result,       \* what the last _execute_with_retry on its own did
    recovery_result,   \* what the last recover_from_backup on its own did
    end_result,        \* what the last _log_outage_end_direct on its own did
    pass_result,       \* what the last _process_failed_uploads on its own did
    store_result,      \* what the last _store_failed_upload on its own did
    shutdown,          \* what the interrupt that ended this process met and
                       \*   what its handler did
    carried,           \* what the process before this one held in memory
                       \*   when it ended
    healed             \* check cycles run since the sink answers every call

monitor_vars ==
    <<last_status, outage_start_time, connectivity_restored_recently,
      last_backup_recovery, check_count>>

logger_vars == <<failed_uploads, last_successful_upload>>

ghost_vars == <<gave_up, evicted, end_first>>

probe_vars ==
    <<ping_results, http_results, dns_results, check_result, probes>>

unit_vars ==
    <<send_result, recovery_result, end_result, pass_result, store_result>>

run_vars == <<shutdown, carried, healed>>

vars ==
    <<pc, clock, tz, budget, restarts, sheets_logger, monitor_vars,
      logger_vars, sheets, backup_file, last_result, events, verdicts,
      ghost_vars, probe_vars, recoveries, appended, offered, unit_vars, run_vars>>

\* The UTC offsets a host may run with: west of, at and east of Greenwich.
TzOffsets == {-3600, 0, 3600}

RECURSIVE SeqsOfLen(_, _)
\* The sequences of length n over the set S.
SeqsOfLen(S, n) ==
    IF n = 0 THEN {<<>>}
    ELSE {Append(q, x) : q \in SeqsOfLen(S, n - 1), x \in S}

\* The sink scripts of a cycle: an outcome for each of its first ScriptLen
\* API calls and one for all later ones (which are then answered or refused
\* alike).
SinkScripts ==
    [script : SeqsOfLen(Outcomes, ScriptLen), tail : {"ok", "fail"}]

\* The monitor as its methods see it at clock reading now, with the sink
\* script sc before it.  The class of the sink's errors only sets how long the
\* retry loop sleeps, which no field of the monitor or the logger keeps.
Monitor(now, sc) ==
    [last_status |-> last_status,
     outage_start_time |-> outage_start_time,
     connectivity_restored_recently |-> connectivity_restored_recently,
     last_backup_recovery |-> last_backup_recovery,
     sheets_logger |-> sheets_logger,
     log |-> [sheets |-> sheets,
              failed_uploads |-> failed_uploads,
              last_successful_upload |-> last_successful_upload,
              now |-> now, tz |-> tz,
              script |-> sc.script, tail |-> sc.tail,
              gave_up |-> gave_up, evicted |-> evicted,
              end_first |-> end_first,
              fault |-> "general", calls |-> <<>>, sleeps |-> <<>>,
              exhausted |-> <<>>]]

\* The variables take the monitor's fields.
SetMonitor(M) ==
    /\ last_status' = M.last_status
    /\ outage_start_time' = M.outage_start_time
    /\ connectivity_restored_recently' = M.connectivity_restored_recently
    /\ last_backup_recovery' = M.last_backup_recovery
    /\ failed_uploads' = M.log.failed_uploads
    /\ last_successful_upload' = M.log.last_successful_upload
    /\ sheets' = M.log.sheets
    /\ gave_up' = M.log.gave_up
    /\ evicted' = M.log.evicted
    /\ end_first' = M.log.end_first

\* The result of a cycle that began at second t and reached this verdict.
VerdictResult(t, connected) ==
    [timestamp |-> IsoUtc(t), location_id |-> LOCATION_ID,
     connected |-> connected, status_change |-> None]

\* InternetMonitor.__init__ and GoogleSheetsLogger.__init__.
NewProcess ==
    /\ last_status' = None
    /\ outage_start_time' = None
    /\ connectivity_restored_recently' = FALSE
    /\ last_backup_recovery' = None
    /\ check_count' = 0
    /\ failed_uploads' = <<>>
    /\ last_successful_upload' = None
    /\ last_result' = None
    /\ events' = <<>>
    /\ verdicts' = <<>>
    /\ recoveries' = <<>>
    /\ offered' = <<>>
    /\ shutdown' = None

Init ==
    /\ pc = "start"
    /\ clock = 0
    /\ tz \in TzOffsets
    /\ budget = MaxCycles
    /\ restarts = 0
    /\ sheets_logger \in BOOLEAN
    /\ last_status = None
    /\ outage_start_time = None
    /\ connectivity_restored_recently = FALSE
    /\ last_backup_recovery = None
    /\ check_count = 0
    /\ failed_uploads = <<>>
    /\ last_successful_upload = None
    /\ sheets = [n \in {"Connectivity_Checks", "Outages"} |-> <<>>]
    /\ backup_file = AbsentFile
    /\ last_result = None
    /\ events = <<>>
    /\ verdicts = <<>>
    /\ gave_up = {}
    /\ evicted = {}
    /\ end_first = {}
    /\ ping_results = <<>>
    /\ http_results = <<>>
    /\ dns_results = <<>>
    /\ check_result = None
    /\ probes = None
    /\ recoveries = <<>>
    /\ appended = None
    /\ offered = <<>>
    /\ send_result = None
    /\ recovery_result = None
    /\ end_result = None
    /\ pass_result = None
    /\ store_result = None
    /\ shutdown = None
    /\ carried = None
    /\ healed = 0

\* ----------------------------------------------------------------- actions

\* What a completed run_check leaves: the monitor, the file, the result and
\* the record of the tracker's call.
Completed(r, M) ==
    /\ SetMonitor(M)
    /\ backup_file' = r.file
    /\ last_result' = Some(r.result)
    /\ verdicts' = Append(verdicts, r.result.connected)
    /\ events' = IF IsSome(r.result.status_change)
                 THEN Append(events, Val(r.result.status_change))
                 ELSE events
    /\ recoveries' = IF M.last_backup_recovery # last_backup_recovery
                     THEN Append(recoveries,
                                 [at |-> Val(M.last_backup_recovery),
                                  cycle |-> Len(verdicts) + 1])
                     ELSE recoveries
    /\ appended' = None
    /\ offered' = r.offered

CompletedInitial(r) == Completed(r, r.m)

\* A mutation of AfterLoopBody: the loop ends when uploads are left queued.
AfterLoopBodyStopsOnFailure(M) ==
    IF M.log.failed_uploads # <<>> THEN "exited" ELSE "loop"

\* "while True": where the loop is after its body, whatever the body left:
\* run_check returns None on any exception and _process_failed_uploads
\* catches the exceptions of its uploads.
AfterLoopBody(M) == "loop"

CompletedLoop(r) ==
    /\ Completed(r, PeriodicReprocess(r.m, check_count + 1))
    /\ pc' = AfterLoopBody(PeriodicReprocess(r.m, check_count + 1))

\* The cycle that began at second t was cut short after
\* detect_status_change returned cd.
CutShort(cd, t) ==
    /\ SetMonitor(cd.m)
    /\ offered' = cd.m.log.calls
    /\ clock' = t
    /\ verdicts' = Append(verdicts, cd.result.connected)
    /\ events' = IF IsSome(cd.result.status_change)
                 THEN Append(events, Val(cd.result.status_change))
                 ELSE events

\* The second at which the next cycle begins.
NextStart == IF pc = "start" THEN clock ELSE clock + CHECK_INTERVAL

\* run_continuous: the initial check.
InitialCheck ==
    /\ pc = "start"
    /\ budget > 0
    /\ \E connected \in PossibleVerdicts, sc \in SinkScripts :
          CompletedInitial(
              RunCheck(Monitor(clock + Elapsed, sc), backup_file,
                       VerdictResult(clock, connected)))
    /\ pc' = "loop"
    /\ budget' = budget - 1
    /\ UNCHANGED <<clock, tz, restarts, sheets_logger, check_count,
                   probe_vars, unit_vars, run_vars>>

\* run_continuous: one turn of the loop: the sleep, the check, the count and
\* the periodic reprocessing of the queue.
LoopIteration ==
    /\ pc = "loop"
    /\ budget > 0
    /\ \E connected \in PossibleVerdicts, sc \in SinkScripts :
          CompletedLoop(
              RunCheck(Monitor(clock + CHECK_INTERVAL + Elapsed, sc),
                       backup_file,
                       VerdictResult(clock + CHECK_INTERVAL, connected)))
    /\ clock' = clock + CHECK_INTERVAL
    /\ check_count' = check_count + 1
    /\ budget' = budget - 1
    /\ UNCHANGED <<tz, restarts, sheets_logger, probe_vars, unit_vars,
                   run_vars>>

\* The seconds from the start of one cycle to the start of the next: the
\* sleep, and for a slow cycle what the cycle itself took.
CycleSteps == {CHECK_INTERVAL, CHECK_INTERVAL + SlowCycle}

\* The sink scripts of a sink that is up or down for a whole cycle.
UniformScripts ==
    {sc \in SinkScripts : \A i \in 1..Len(sc.script) : sc.script[i] = sc.tail}

\* run_continuous: one turn of the loop, begun one step after the last one.
TimedIteration ==
    /\ pc = "loop"
    /\ budget > 0
    /\ \E step \in CycleSteps, connected \in PossibleVerdicts,
          sc \in UniformScripts :
          /\ CompletedLoop(
                 RunCheck(Monitor(clock + step + Elapsed, sc), backup_file,
                          VerdictResult(clock + step, connected)))
          /\ clock' = clock + step
    /\ check_count' = check_count + 1
    /\ budget' = budget - 1
    /\ UNCHANGED <<tz, restarts, sheets_logger, probe_vars, unit_vars,
                   run_vars>>

\* The seconds between the clock readings of two cycles when the wall clock
\* may be set back during the sleep.
SkewedSteps == {CHECK_INTERVAL, CHECK_INTERVAL - ClockSetBack}

\* run_continuous: one turn of the loop on a host whose wall clock may be
\* set back: datetime.now() reads the wall clock.
SkewedIteration ==
    /\ pc = "loop"
    /\ budget > 0
    /\ \E step \in SkewedSteps, connected \in PossibleVerdicts,
          sc \in UniformScripts :
          /\ CompletedLoop(
                 RunCheck(Monitor(clock + step + Elapsed, sc), backup_file,
                          VerdictResult(clock + step, connected)))
          /\ clock' = clock + step
    /\ check_count' = check_count + 1
    /\ budget' = budget - 1
    /\ UNCHANGED <<tz, restarts, sheets_logger, probe_vars, unit_vars,
                   run_vars>>

\* The script of a sink that answers every call.
OkScript == [script |-> <<>>, tail |-> "ok"]

\* run_continuous: one turn of the loop after the sink has healed: every
\* call of the cycle is answered, and so will be those of all later cycles.
HealedIteration ==
    /\ pc = "loop"
    /\ healed < MaxHealedCycles
    /\ \E connected \in PossibleVerdicts :
          CompletedLoop(
              RunCheck(Monitor(clock + CHECK_INTERVAL + Elapsed, OkScript),
                       backup_file,
                       VerdictResult(clock + CHECK_INTERVAL, connected)))
    /\ clock' = clock + CHECK_INTERVAL
    /\ check_count' = check_count + 1
    /\ healed' = healed + 1
    /\ budget' = 0
    /\ UNCHANGED <<tz, restarts, sheets_logger, probe_vars, unit_vars,
                   shutdown, carried>>

\* The handler of KeyboardInterrupt in run_continuous.
FinalAttempt(M) ==
    IF M.sheets_logger THEN [M EXCEPT !.log = ProcessFailedUploads(@)] ELSE M

\* The uploads of a queue, by their keys.
KeysOf(q) == {UploadKey(q[i].operation_type, q[i].data) : i \in 1..Len(q)}

\* The process ends on a KeyboardInterrupt that met the monitor M and the
\* backup file as it is; Mx is the monitor when the process ends, calls the
\* operations invoked since the interrupt.
EndsInterrupted(M, Mx, calls) ==
    /\ SetMonitor(Mx)
    /\ shutdown' = Some([pending |-> KeysOf(M.log.failed_uploads),
                         attempted |-> {calls[i] : i \in 1..Len(calls)},
                         file |-> backup_file.state])
    /\ pc' = "exited"

\* The handler ran on the monitor M and left Mx.
EndsHandled(M, Mx) == EndsInterrupted(M, Mx, Mx.log.calls)

\* run_continuous: KeyboardInterrupt during the sleep: the final attempt to
\* upload what is queued, then the process ends.
Interrupt ==
    /\ pc = "loop"
    /\ \E sc \in SinkScripts :
          EndsHandled(Monitor(clock + Elapsed, sc),
                      FinalAttempt(Monitor(clock + Elapsed, sc)))
    /\ UNCHANGED <<clock, tz, budget, restarts, sheets_logger, check_count,
                   backup_file, last_result, events, verdicts, probe_vars,
                   recoveries, appended, offered, unit_vars, carried, healed>>

\* run_continuous: KeyboardInterrupt during the initial check, after its
\* upload: run_check does not catch it (it is no Exception) and the initial
\* check runs before the try statement, so no handler runs and the process
\* ends with what the check left.
EndsUnhandled(r) ==
    /\ CompletedInitial(r)
    /\ shutdown' = Some([pending |-> KeysOf(r.m.log.failed_uploads),
                         attempted |-> {},
                         file |-> backup_file.state])

InterruptInitialCheck ==
    /\ pc = "start"
    /\ budget > 0
    /\ \E connected \in PossibleVerdicts, sc \in SinkScripts :
          EndsUnhandled(
              RunCheck(Monitor(clock + Elapsed, sc), backup_file,
                       VerdictResult(clock, connected)))
    /\ pc' = "exited"
    /\ budget' = budget - 1
    /\ UNCHANGED <<clock, tz, restarts, sheets_logger, check_count,
                   probe_vars, unit_vars, carried, healed>>

\* What follows a KeyboardInterrupt raised inside run_check: in the loop the
\* handler's final attempt, in the initial check nothing.
HandlerIfInLoop(M) ==
    IF pc = "loop"
    THEN FinalAttempt([M EXCEPT !.log.calls = <<>>])
    ELSE [M EXCEPT !.log.calls = <<>>]

\* The cycle that began at second t was interrupted after
\* detect_status_change returned cd.
InterruptedInCycle(cd, t) ==
    /\ EndsHandled(cd.m, HandlerIfInLoop(cd.m))
    /\ offered' = cd.m.log.calls
    /\ clock' = t
    /\ verdicts' = Append(verdicts, cd.result.connected)
    /\ events' = IF IsSome(cd.result.status_change)
                 THEN Append(events, Val(cd.result.status_change))
                 ELSE events

\* run_continuous: KeyboardInterrupt while save_local_backup rewrites the
\* file: its handler catches Exception only, so the dump is abandoned with
\* the file opened for writing and cut short.
InterruptInBackupWrite ==
    /\ pc \in {"start", "loop"}
    /\ budget > 0
    /\ backup_file.state # "corrupt"
    /\ \E connected \in PossibleVerdicts, sc \in SinkScripts :
          InterruptedInCycle(
              CheckAndDetect(Monitor(NextStart + Elapsed, sc),
                             VerdictResult(NextStart, connected)),
              NextStart)
    /\ backup_file' = CorruptFile
    /\ appended' = None
    /\ budget' = budget - 1
    /\ UNCHANGED <<tz, restarts, sheets_logger, check_count, last_result,
                   probe_vars, recoveries, unit_vars, carried, healed>>

\* The process is killed while save_local_backup rewrites the file (the file
\* was opened for writing, which empties it, and the dump has not finished):
\* the cycle has run up to there and the file no longer parses.
KillInBackupWrite ==
    /\ pc \in {"start", "loop"}
    /\ budget > 0
    /\ backup_file.state # "corrupt"
    /\ \E connected \in PossibleVerdicts, sc \in SinkScripts :
          CutShort(CheckAndDetect(Monitor(NextStart + Elapsed, sc),
                                  VerdictResult(NextStart, connected)),
                   NextStart)
    /\ backup_file' = CorruptFile
    /\ appended' = None
    /\ pc' = "exited"
    /\ budget' = budget - 1
    /\ UNCHANGED <<tz, restarts, sheets_logger, check_count, last_result,
                   probe_vars, recoveries, unit_vars, run_vars>>

\* The cycle that began at second t was cut short right after
\* save_local_backup returned for the result of cd.
CutShortAfterSave(cd, t) ==
    /\ CutShort(cd, t)
    /\ backup_file' = SaveLocalBackup(backup_file, cd.result)
    /\ appended' = Some(cd.result)

\* The process is killed right after save_local_backup returned (the file
\* was closed, so what was written is with the operating system).
KillAfterBackupWrite ==
    /\ pc \in {"start", "loop"}
    /\ budget > 0
    /\ \E connected \in PossibleVerdicts, sc \in SinkScripts :
          CutShortAfterSave(
              CheckAndDetect(Monitor(NextStart + Elapsed, sc),
                             VerdictResult(NextStart, connected)),
              NextStart)
    /\ pc' = "exited"
    /\ budget' = budget - 1
    /\ UNCHANGED <<tz, restarts, sheets_logger, check_count, last_result,
                   probe_vars, recoveries, unit_vars, run_vars>>

\* The process is started again: main() builds a new monitor and logger; the
\* spreadsheet and the backup file are what the old process left.
Restart ==
    /\ pc = "exited"
    /\ restarts < MaxRestarts
    /\ NewProcess
    /\ pc' = "start"
    /\ clock' = clock + CHECK_INTERVAL
    /\ restarts' = restarts + 1
    /\ carried' = Some([outage_start_time |-> outage_start_time,
                        pending |-> KeysOf(failed_uploads)])
    /\ UNCHANGED <<tz, budget, sheets_logger, sheets, backup_file,
                   ghost_vars, probe_vars, appended, unit_vars, healed>>

\* The run loop of one process.
Next ==
    \/ InitialCheck
    \/ LoopIteration

Spec == Init /\ [][Next]_vars

\* The run loop with cycles of different lengths.
NextTimed ==
    \/ InitialCheck
    \/ TimedIteration

SpecTimed == Init /\ [][NextTimed]_vars

\* The run loop on a host whose wall clock may be set back.
NextSkewed ==
    \/ InitialCheck
    \/ SkewedIteration

SpecSkewed == Init /\ [][NextSkewed]_vars

\* The run loop with a sink that heals: some cycles with any sink, then
\* cycles whose every call is answered.  The loop keeps running: the sleep
\* ends and the next check begins.
InitHealed ==
    /\ pc = "start"
    /\ clock = 0
    /\ tz \in TzOffsets
    /\ budget = MaxFaultyCycles
    /\ restarts = 0
    /\ sheets_logger \in BOOLEAN
    /\ last_status = None
    /\ outage_start_time = None
    /\ connectivity_restored_recently = FALSE
    /\ last_backup_recovery = None
    /\ check_count = 0
    /\ failed_uploads = <<>>
    /\ last_successful_upload = None
    /\ sheets = [n \in {"Connectivity_Checks", "Outages"} |-> <<>>]
    /\ backup_file = AbsentFile
    /\ last_result = None
    /\ events = <<>>
    /\ verdicts = <<>>
    /\ gave_up = {}
    /\ evicted = {}
    /\ end_first = {}
    /\ ping_results = <<>>
    /\ http_results = <<>>
    /\ dns_results = <<>>
    /\ check_result = None
    /\ probes = None
    /\ recoveries = <<>>
    /\ appended = None
    /\ offered = <<>>
    /\ send_result = None
    /\ recovery_result = None
    /\ end_result = None
    /\ pass_result = None
    /\ store_result = None
    /\ shutdown = None
    /\ carried = None
    /\ healed = 0

NextHealed ==
    \/ InitialCheck
    \/ LoopIteration
    \/ HealedIteration

\* What a healed cycle does to the count of healed cycles.  In this
\* specification the steps that raise the count are the healed cycles, and
\* one can be taken exactly when the loop sleeps and the count is below its
\* bound.
HealedStep == pc = "loop" /\ healed < MaxHealedCycles /\ healed' = healed + 1

\* The loop keeps running: time.sleep returns and the next check begins.
SpecHealed == InitHealed /\ [][NextHealed]_vars /\ WF_healed(HealedStep)

\* The life cycle of the process: the run loop, its end by an interrupt or a
\* kill, and the restart.
InitLife ==
    /\ pc = "start"
    /\ clock = 0
    /\ tz \in TzOffsets
    /\ budget = MaxLifeCycles
    /\ restarts = 0
    /\ sheets_logger \in BOOLEAN
    /\ last_status = None
    /\ outage_start_time = None
    /\ connectivity_restored_recently = FALSE
    /\ last_backup_recovery = None
    /\ check_count = 0
    /\ failed_uploads = <<>>
    /\ last_successful_upload = None
    /\ sheets = [n \in {"Connectivity_Checks", "Outages"} |-> <<>>]
    /\ backup_file = AbsentFile
    /\ last_result = None
    /\ events = <<>>
    /\ verdicts = <<>>
    /\ gave_up = {}
    /\ evicted = {}
    /\ end_first = {}
    /\ ping_results = <<>>
    /\ http_results = <<>>
    /\ dns_results = <<>>
    /\ check_result = None
    /\ probes = None
    /\ recoveries = <<>>
    /\ appended = None
    /\ offered = <<>>
    /\ send_result = None
    /\ recovery_result = None
    /\ end_result = None
    /\ pass_result = None
    /\ store_result = None
    /\ shutdown = None
    /\ carried = None
    /\ healed = 0

NextLife ==
    \/ InitialCheck
    \/ LoopIteration
    \/ Interrupt
    \/ InterruptInitialCheck
    \/ InterruptInBackupWrite
    \/ KillInBackupWrite
    \/ KillAfterBackupWrite
    \/ Restart

SpecLife == InitLife /\ [][NextLife]_vars

\* ------------------------------------------------- the probe specification

\* The targets configured for a kind (PING_TARGETS, HTTP_TARGETS,
\* DNS_SERVERS), in configuration order.
Targets(kind) == [i \in 1..NumTargets |-> <<kind, i>>]

\* What a probe can meet: the target answers; the probe fails (a refusal, a
\* wrong answer, an error the probe method catches); the target does not
\* answer within the timeout; an error leaves the probe method and is caught
\* by the handler of comprehensive_check.
ProbeBehaviours == {"success", "failure", "timeout", "raises"}

\* A mutation of ProbeTest: a probe that timed out counts as a success.
ProbeTestTimeoutSucceeds(target, behaviour) ==
    [success |-> behaviour \in {"success", "timeout"}, target |-> target,
     error |-> IF behaviour = "success" THEN None ELSE Some(behaviour)]

\* ping_test, http_test, dns_test: what the probe of one target returns.
\* Every branch but the answered one returns success False with an error
\* text.
ProbeTest(target, behaviour) ==
    [success |-> behaviour = "success", target |-> target,
     error |-> IF behaviour = "success" THEN None ELSE Some(behaviour)]

\* The body of a loop of comprehensive_check: the probe's result, or, if the
\* probe method raised, a failed result built by the handler.
ProbeOrHandler(target, behaviour) ==
    IF behaviour = "raises"
    THEN [success |-> FALSE, target |-> target, error |-> Some("raises")]
    ELSE ProbeTest(target, behaviour)

RECURSIVE ProbeLoop(_, _, _)
\* "for target in targets: ... results.append(result)" with the results so
\* far.
ProbeLoop(results, targets, behaviours) ==
    IF Len(results) >= Len(targets) THEN results
    ELSE ProbeLoop(
             Append(results,
                    ProbeOrHandler(targets[Len(results) + 1],
                                   behaviours[Len(results) + 1])),
             targets, behaviours)

\* The results of one kind's probes.
ProbeResults(kind, behaviours) == ProbeLoop(<<>>, Targets(kind), behaviours)

\* What the probes of one kind can meet: a behaviour per target.
BehaviourLists == SeqsOfLen(ProbeBehaviours, NumTargets)

\* comprehensive_check, whatever its probes meet.
ComprehensiveCheck ==
    /\ check_result = None
    /\ \E p \in BehaviourLists, h \in BehaviourLists, d \in BehaviourLists :
          /\ probes' = Some([ping |-> p, http |-> h, dns |-> d])
          /\ ping_results' = ProbeResults("ping", p)
          /\ http_results' = ProbeResults("http", h)
          /\ dns_results' = ProbeResults("dns", d)
          /\ check_result' =
                 Some(CheckResult(clock, ProbeResults("ping", p),
                                  ProbeResults("http", h),
                                  ProbeResults("dns", d)))
    /\ UNCHANGED <<pc, clock, tz, budget, restarts, sheets_logger,
                   monitor_vars, logger_vars, sheets, backup_file,
                   last_result, events, verdicts, ghost_vars, recoveries,
                   appended, offered, unit_vars, run_vars>>

SpecProbe == Init /\ [][ComprehensiveCheck]_vars

\* -------------------------------------------------- the send specification

\* The sink scripts of one send.
SendScripts ==
    [script : SeqsOfLen(Outcomes, SendScriptLen), tail : {"ok", "fail"}]

\* The logger before a send, with a sink that raises errors of this class.
SendState(fault, sc) ==
    [Monitor(clock + Elapsed, sc).log EXCEPT !.fault = fault]

\* What a send did: r is what _execute_with_retry returned.
SendOutcome(max_retries, fault, sc, r) ==
    [max_retries |-> max_retries, fault |-> fault, sink |-> sc,
     calls |-> Len(r.s.calls), sleeps |-> r.s.sleeps, ok |-> r.ok,
     failed_uploads |-> r.s.failed_uploads]

\* _execute_with_retry on the upload of a check result, for any attempt
\* limit, error class and sink script.
Send ==
    /\ \E max_retries \in 1..MaxAttempts, fault \in Faults,
          sc \in SendScripts :
          send_result' =
              Some(SendOutcome(max_retries, fault, sc,
                       ExecuteWithRetry(SendState(fault, sc),
                                        "connectivity_check",
                                        VerdictResult(clock, TRUE),
                                        max_retries)))
    /\ UNCHANGED <<pc, clock, tz, budget, restarts, sheets_logger,
                   monitor_vars, logger_vars, sheets, backup_file,
                   last_result, events, verdicts, ghost_vars, probe_vars,
                   recoveries, appended, offered, recovery_result, end_result,
                   pass_result, store_result,
                   run_vars>>

SpecSend == Init /\ [][Send]_vars

\* ------------------------------------------------- the queue specification

\* The queue entry of the check of cycle i, retried count times so far.
QueuedCheck(i, count) ==
    [timestamp |-> IsoLocal((i - 1) * CHECK_INTERVAL + Elapsed, tz),
     operation_type |-> "connectivity_check",
     data |-> VerdictResult((i - 1) * CHECK_INTERVAL, TRUE),
     retry_count |-> count]

\* The queues a pass can find: the checks of the first cycles, each retried
\* fewer than GiveUpRetries times.
PassQueues ==
    UNION {{[i \in 1..n |-> QueuedCheck(i, c[i])] :
               c \in [1..n -> 0..(GiveUpRetries - 1)]} : n \in 1..MaxQueued}

\* The sink scripts of one pass: an outcome per queued upload.
PassScripts ==
    [script : SeqsOfLen(Outcomes, MaxQueued), tail : {"ok", "fail"}]

\* The logger before the pass.
PassState(q, sc) ==
    [Monitor(clock + MaxQueued * CHECK_INTERVAL + Elapsed, sc).log
        EXCEPT !.failed_uploads = q]

\* What a pass did: S is the logger it left.
PassOutcome(q, sc, S) ==
    [before |-> q, sink |-> sc, after |-> S.failed_uploads,
     calls |-> S.calls, gave_up |-> S.gave_up, sheets |-> S.sheets]

\* _process_failed_uploads on any queue, with any sink script.
ReprocessPass ==
    /\ pass_result = None
    /\ \E q \in PassQueues, sc \in PassScripts :
          pass_result' =
              Some(PassOutcome(q, sc, ProcessFailedUploads(PassState(q, sc))))
    /\ UNCHANGED <<pc, clock, tz, budget, restarts, sheets_logger,
                   monitor_vars, logger_vars, sheets, backup_file,
                   last_result, events, verdicts, ghost_vars, probe_vars,
                   recoveries, appended, offered, send_result, recovery_result,
                   end_result, store_result,
                   run_vars>>

SpecQueue == Init /\ [][ReprocessPass]_vars

\* ------------------------------------------------- the store specification

\* The logger before a store: the queue is what the stores so far left.
StoreState(sc) == Monitor(clock + Elapsed, sc).log

\* What a store did: S is the logger it left.
StoreOutcome(data, S) ==
    [before |-> failed_uploads, data |-> data, after |-> S.failed_uploads]

\* The queue takes what the store left.
Stored(data, S) ==
    /\ failed_uploads' = S.failed_uploads
    /\ evicted' = S.evicted
    /\ store_result' = Some(StoreOutcome(data, S))

\* _store_failed_upload for the check of one more cycle whose send failed,
\* with no successful send in between.
StoreUpload ==
    /\ clock < MaxStores * CHECK_INTERVAL
    /\ \E connected \in BOOLEAN :
          Stored(VerdictResult(clock, connected),
                 StoreFailedUpload(StoreState(OkScript), "connectivity_check",
                                   VerdictResult(clock, connected)))
    /\ clock' = clock + CHECK_INTERVAL
    /\ UNCHANGED <<pc, tz, budget, restarts, sheets_logger, monitor_vars,
                   last_successful_upload, sheets, backup_file, last_result,
                   events, verdicts, gave_up, end_first, probe_vars,
                   recoveries, appended, offered, send_result, recovery_result,
                   end_result, pass_result, run_vars>>

SpecStore == Init /\ [][StoreUpload]_vars

\* ------------------------------------------- the outage-end specification

\* The locations that log to the spreadsheet: this monitor's and another.
Locations == {LOCATION_ID, "house2"}

\* The rows the Outages sheet can hold: outages of either location that
\* began at second 0 or 60, ongoing or resolved after 60 seconds.
OutageRowsPossible ==
    {OngoingRow([location_id |-> l, start_time |-> IsoUtc(t)]) :
        l \in Locations, t \in {0, CHECK_INTERVAL}}
    \cup {ResolvedRow([location_id |-> l, start_time |-> IsoUtc(t),
                       end_time |-> IsoUtc(t + CHECK_INTERVAL),
                       duration_seconds |-> CHECK_INTERVAL]) :
              l \in Locations, t \in {0, CHECK_INTERVAL}}

RECURSIVE SeqsUpTo(_, _)
\* The sequences of length at most n over the set S.
SeqsUpTo(S, n) ==
    IF n = 0 THEN {<<>>} ELSE SeqsOfLen(S, n) \cup SeqsUpTo(S, n - 1)

\* The sink scripts of one delivery of an outage end: its two API calls.
EndScripts == [script : SeqsOfLen({"ok", "fail"}, 2), tail : {"ok"}]

\* The logger before the delivery, the Outages sheet holding these rows.
EndState(rows, sc) ==
    [Monitor(clock + Elapsed, sc).log EXCEPT !.sheets["Outages"] = rows]

\* What a delivery did: r is what _log_outage_end_direct returned.
EndOutcome(rows, data, r) ==
    [before |-> rows, data |-> data, ok |-> r.ok,
     after |-> r.s.sheets["Outages"]]

\* The end of this monitor's outage that began at second 0 and lasted two
\* check intervals.
EndData ==
    [location_id |-> LOCATION_ID, start_time |-> IsoUtc(0),
     end_time |-> IsoUtc(2 * CHECK_INTERVAL),
     duration_seconds |-> 2 * CHECK_INTERVAL]

\* _log_outage_end_direct on any Outages sheet.
DeliverEnd ==
    /\ end_result = None
    /\ \E rows \in SeqsUpTo(OutageRowsPossible, MaxOutageRows),
          sc \in EndScripts :
          end_result' =
              Some(EndOutcome(rows, EndData,
                              DirectOp(EndState(rows, sc), "outage_end",
                                       EndData)))
    /\ UNCHANGED <<pc, clock, tz, budget, restarts, sheets_logger,
                   monitor_vars, logger_vars, sheets, backup_file,
                   last_result, events, verdicts, ghost_vars, probe_vars,
                   recoveries, appended, offered, send_result, recovery_result,
                   pass_result, store_result,
                   run_vars>>

SpecEnd == Init /\ [][DeliverEnd]_vars

\* ---------------------------------------------- the recovery specification

RECURSIVE TrackerRecords(_, _, _), TrackerNext(_, _, _)
\* The records run_check saves for the verdicts v from the i-th on, one
\* cycle every CHECK_INTERVAL seconds from second 0, with the status changes
\* the tracker M returns.
TrackerRecords(M, v, i) ==
    IF i > Len(v) THEN <<>>
    ELSE TrackerNext(
             CheckAndDetect(M, VerdictResult((i - 1) * CHECK_INTERVAL, v[i])),
             v, i)

TrackerNext(cd, v, i) == <<cd.result>> \o TrackerRecords(cd.m, v, i + 1)

\* The backup file's records after cycles with the verdicts v.
BackupOf(v) ==
    TrackerRecords(
        [Monitor(0, [script |-> <<>>, tail |-> "ok"])
            EXCEPT !.sheets_logger = FALSE],
        v, 1)

\* The uploads of a record in the order run_check makes them: the status
\* change (from detect_status_change), then the check.
UploadsOf(record) ==
    (IF IsSome(record.status_change)
     THEN <<[operation_type |-> Val(record.status_change).type,
             data |-> StatusChangeData(Val(record.status_change)),
             cycle_start |-> FromIso(record.timestamp)]>>
     ELSE <<>>)
    \o <<[operation_type |-> "connectivity_check", data |-> record,
          cycle_start |-> FromIso(record.timestamp)]>>

RECURSIVE Uploaded(_, _)
\* The logger after these uploads went through.
Uploaded(S, uploads) ==
    IF uploads = <<>> THEN S
    ELSE Uploaded(Operation(S, Head(uploads).operation_type,
                            Head(uploads).data).s,
                  Tail(uploads))

RECURSIVE UploadsOfAll(_)
UploadsOfAll(records) ==
    IF records = <<>> THEN <<>>
    ELSE UploadsOf(Head(records)) \o UploadsOfAll(Tail(records))

\* The queue entries of uploads that failed in the cycle of their record.
QueueOf(uploads) ==
    [i \in 1..Len(uploads) |->
        [timestamp |-> IsoLocal(uploads[i].cycle_start + Elapsed, tz),
         operation_type |-> uploads[i].operation_type,
         data |-> uploads[i].data,
         retry_count |-> 0]]

\* The logger before a recovery pass over the records data, run in the cycle
\* of the last record: the first delivered records have their rows in the
\* sheets, the uploads of the records from queue_from on that are not
\* delivered wait in the queue (the earlier ones were queued by a process
\* that has ended), and the last success, if this process had one, was the
\* delivery of the last delivered record.
RecoveryState(data, delivered, queue_from, had_success, sc) ==
    [Uploaded(Monitor((Len(data) - 1) * CHECK_INTERVAL + Elapsed,
                      [script |-> <<>>, tail |-> "ok"]).log,
              UploadsOfAll(SubSeq(data, 1, delivered)))
        EXCEPT !.script = sc.script, !.tail = sc.tail,
               !.calls = <<>>, !.end_first = {},
               !.failed_uploads =
                   QueueOf(UploadsOfAll(
                       SubSeq(data,
                              IF queue_from > delivered
                              THEN queue_from ELSE delivered + 1,
                              Len(data)))),
               !.last_successful_upload =
                   IF had_success /\ delivered > 0
                   THEN Some(IsoLocal(
                            (delivered - 1) * CHECK_INTERVAL + Elapsed, tz))
                   ELSE None]

\* What a recovery pass did: before is the logger it began with and after
\* the one it left.
RecoveryOutcome(data, delivered, sc, before, after) ==
    [backup |-> data, delivered |-> delivered, sink |-> sc,
     before |-> [failed_uploads |-> before.failed_uploads,
                 last_successful_upload |-> before.last_successful_upload,
                 sheets |-> before.sheets],
     calls |-> after.calls, exhausted |-> after.exhausted,
     failed_uploads |-> after.failed_uploads,
     last_successful_upload |-> after.last_successful_upload,
     sheets |-> after.sheets]

RecoveryPassOn(data, delivered, sc, before) ==
    recovery_result' =
        Some(RecoveryOutcome(data, delivered, sc, before,
                             RecoverFromBackup(before, data)))

RecoveryScripts ==
    [script : SeqsOfLen({"ok", "fail"}, RecoveryScriptLen),
     tail : {"ok", "fail"}]

\* recover_from_backup on a backup of NumRecords records, for any verdicts,
\* any number of records delivered before, any queue and any sink script.
RecoveryPass ==
    /\ recovery_result = None
    /\ \E v \in [1..NumRecords -> BOOLEAN], delivered \in 0..NumRecords,
          queue_from \in 1..(NumRecords + 1), had_success \in BOOLEAN,
          sc \in RecoveryScripts :
          RecoveryPassOn(BackupOf(v), delivered, sc,
                         RecoveryState(BackupOf(v), delivered, queue_from,
                                       had_success, sc))
    /\ UNCHANGED <<pc, clock, tz, budget, restarts, sheets_logger,
                   monitor_vars, logger_vars, sheets, backup_file,
                   last_result, events, verdicts, ghost_vars, probe_vars,
                   recoveries, appended, offered, send_result, end_result,
                   pass_result, store_result,
                   run_vars>>

SpecRecovery == Init /\ [][RecoveryPass]_vars

\* ================================================================== claims

\* How many events of a type the tracker has returned.
CountType(evs, type) ==
    Cardinality({i \in 1..Len(evs) : evs[i].type = type})

\* The places of the Up->Down and of the Down->Up transitions in a sequence
\* of verdicts: i is the place of the earlier verdict.
UpDownAt(v) == {i \in 1..(Len(v) - 1) : v[i] /\ ~v[i + 1]}
DownUpAt(v) == {i \in 1..(Len(v) - 1) : ~v[i] /\ v[i + 1]}

\* C1: the tracker has returned as many OutageStart events as the verdicts it
\* was fed hold Up->Down transitions, and none at all on its first
\* observation.
C1_OutageStartCount ==
    /\ CountType(events, "outage_start") = Cardinality(UpDownAt(verdicts))
    /\ Len(verdicts) <= 1 => events = <<>>

\* A run whose first observation was Down and that later lost the connection
\* twice.
C1_Witness ==
    /\ Len(verdicts) >= 1 /\ ~verdicts[1]
    /\ CountType(events, "outage_start") = 2

\* C2 as stated: as many OutageEnd events as Down->Up transitions, whatever
\* the first observed verdict was.
C2_OutageEndCountAnyFirst ==
    CountType(events, "outage_end") = Cardinality(DownUpAt(verdicts))

\* C2 as amended: as many OutageEnd events as Down->Up transitions that come
\* after some Up verdict; the Down->Up transition that ends a run of Down
\* verdicts observed first returns no event.
C2_OutageEndCount ==
    CountType(events, "outage_end") =
        Cardinality({i \in DownUpAt(verdicts) :
                        \E j \in 1..(i - 1) : verdicts[j]})

\* A run that began Down, came Up without an event, and later closed an
\* outage.
C2_Witness ==
    /\ Len(verdicts) >= 2 /\ ~verdicts[1] /\ verdicts[2]
    /\ CountType(events, "outage_end") = 1

\* C3: the events of one tracker alternate, OutageStart first; an outage is
\* open (outage_start_time is set) exactly after an OutageStart that no
\* OutageEnd has followed.
C3_EventsAlternate ==
    /\ \A i \in 1..Len(events) :
          events[i].type = IF i % 2 = 1 THEN "outage_start" ELSE "outage_end"
    /\ IsSome(outage_start_time) <=> Len(events) % 2 = 1

\* Two outages, the second still open.
C3_Witness == Len(events) = 3

\* C4: every OutageEnd names as outage_start the timestamp of the OutageStart
\* right before it and as duration its own timestamp minus that one; the
\* verdicts true, true, false, false, true of a process started at second 0
\* give one OutageStart at second 120 and one OutageEnd at second 240 of
\* 120 seconds.
C4_OutageEndMatchesStart ==
    /\ \A i \in 1..Len(events) :
          events[i].type = "outage_end" =>
              /\ i > 1
              /\ events[i - 1].type = "outage_start"
              /\ events[i].outage_start = events[i - 1].timestamp
              /\ events[i].duration_seconds =
                     events[i].timestamp.wall - events[i - 1].timestamp.wall
    /\ verdicts = <<TRUE, TRUE, FALSE, FALSE, TRUE>> =>
          /\ Len(events) = 2
          /\ events[1].type = "outage_start"
          /\ events[1].timestamp = [wall |-> 120, aware |-> TRUE]
          /\ events[2].type = "outage_end"
          /\ events[2].timestamp = [wall |-> 240, aware |-> TRUE]
          /\ events[2].duration_seconds = 120

C4_Witness == verdicts = <<TRUE, TRUE, FALSE, FALSE, TRUE>>

\* C5: the verdict of a check is: some ping probe succeeded, and some HTTP
\* probe or some DNS probe succeeded.
C5_VerdictFormula ==
    IsSome(check_result) =>
        (Val(check_result).connected <=>
            /\ \E i \in 1..Len(ping_results) : ping_results[i].success
            /\ \/ \E i \in 1..Len(http_results) : http_results[i].success
               \/ \E i \in 1..Len(dns_results) : dns_results[i].success)

\* A check whose ping probes all succeeded and nothing else did: not
\* connected.
C5_Witness ==
    /\ IsSome(check_result)
    /\ \A i \in 1..Len(ping_results) : ping_results[i].success
    /\ \A i \in 1..Len(http_results) : ~http_results[i].success
    /\ \A i \in 1..Len(dns_results) : ~dns_results[i].success
    /\ ~Val(check_result).connected

\* The uploads that have a row in the spreadsheet: check rows by timestamp,
\* outage starts by any row of the outage, outage ends by a RESOLVED row.
DeliveredKeys ==
    {<<"connectivity_check", FromIso(sheets["Connectivity_Checks"][i].timestamp)>> :
        i \in 1..Len(sheets["Connectivity_Checks"])}
    \cup {<<"outage_start", FromIso(sheets["Outages"][i].start_time)>> :
             i \in 1..Len(sheets["Outages"])}
    \cup {<<"outage_end", FromIso(sheets["Outages"][i].start_time)>> :
             i \in {k \in 1..Len(sheets["Outages"]) :
                       sheets["Outages"][k].status = "RESOLVED"}}

\* C6: an upload that could not be delivered leaves the pending queue only
\* delivered or evicted by the capacity cap: none is given up undelivered.
C6_NoUndeliveredDrop == gave_up \subseteq DeliveredKeys

\* C7: no OutageEnd is sent to the sink while no delivery of its OutageStart
\* has completed.
C7_StartBeforeEnd == end_first = {}

\* The rows of the Outages sheet of the outage that began at start_time.
OutageRows(start_time) ==
    {i \in 1..Len(sheets["Outages"]) :
        /\ sheets["Outages"][i].location_id = LOCATION_ID
        /\ sheets["Outages"][i].start_time = start_time}

\* The outage that began at start_time has an upload pending, given up or
\* evicted.
Undelivered(start_time) ==
    \/ \E i \in 1..Len(failed_uploads) :
          /\ failed_uploads[i].operation_type # "connectivity_check"
          /\ failed_uploads[i].data.start_time = start_time
    \/ \E k \in gave_up \cup evicted :
          k[1] # "connectivity_check" /\ k[2] = FromIso(start_time)

\* C8: an outage that has ended and has nothing left to deliver has exactly
\* one row, and that row is RESOLVED.
C8_OneResolvedRow ==
    \A i \in 1..Len(events) :
        (events[i].type = "outage_end" /\ sheets_logger
         /\ ~Undelivered(events[i].outage_start)) =>
            /\ Cardinality(OutageRows(events[i].outage_start)) = 1
            /\ \A k \in OutageRows(events[i].outage_start) :
                  sheets["Outages"][k].status = "RESOLVED"

\* C9: the Outages sheet never holds two ONGOING rows of one location and
\* start time.
C9_NoTwoOngoing ==
    \A i \in 1..Len(sheets["Outages"]), j \in 1..Len(sheets["Outages"]) :
        (/\ i < j
         /\ sheets["Outages"][i].status = "ONGOING"
         /\ sheets["Outages"][j].status = "ONGOING"
         /\ sheets["Outages"][i].location_id = sheets["Outages"][j].location_id)
        => sheets["Outages"][i].start_time # sheets["Outages"][j].start_time

\* C10: after every completed check cycle the newest record of the backup
\* file is that cycle's result.
C10_CycleRecordAppended ==
    (pc = "loop" /\ IsSome(last_result)) =>
        /\ backup_file.state = "json"
        /\ backup_file.data # <<>>
        /\ backup_file.data[Len(backup_file.data)] = Val(last_result)

\* The sink of a send raised on every call and applied none.
AlwaysFails(sc) ==
    /\ sc.tail = "fail"
    /\ \A i \in 1..Len(sc.script) : sc.script[i] = "fail"

\* C11: against a sink that answers every call with a rate limit error a
\* send invokes the operation as often as its attempt limit says, sleeps
\* between consecutive attempts, each time longer than before, and raises;
\* with the limit at 3 that is 3 invocations with sleeps of 5 and 10 seconds.
C11_RateLimitedSend ==
    (/\ IsSome(send_result)
     /\ Val(send_result).fault = "rate_limit"
     /\ AlwaysFails(Val(send_result).sink)) =>
        /\ Val(send_result).calls = Val(send_result).max_retries
        /\ Len(Val(send_result).sleeps) = Val(send_result).max_retries - 1
        /\ \A i \in 1..(Len(Val(send_result).sleeps) - 1) :
              Val(send_result).sleeps[i] < Val(send_result).sleeps[i + 1]
        /\ ~Val(send_result).ok
        /\ Val(send_result).max_retries = OnlineRetries =>
              /\ Val(send_result).calls = 3
              /\ Val(send_result).sleeps = <<5, 10>>

\* A send with the limit at 3 against a sink that always answers with a rate
\* limit error.
C11_Witness ==
    /\ IsSome(send_result)
    /\ Val(send_result).fault = "rate_limit"
    /\ AlwaysFails(Val(send_result).sink)
    /\ Val(send_result).max_retries = OnlineRetries
    /\ Len(Val(send_result).sleeps) = 2

\* The upload with this key waits in the queue q.
Queued(q, key) ==
    \E j \in 1..Len(q) : UploadKey(q[j].operation_type, q[j].data) = key

\* The check of second t has a row in the sheets sh.
CheckRowPresent(sh, t) ==
    \E j \in 1..Len(sh["Connectivity_Checks"]) :
        FromIso(sh["Connectivity_Checks"][j].timestamp) = t

\* The next recovery pass skips the record of second t: its timestamp
\* compares below the last successful upload lsu.
SkippedNext(lsu, t) == IsSome(lsu) /\ StrLess(IsoUtc(t), Val(lsu))

\* C12: a check whose send used up its attempts in a recovery pass is
\* pending afterwards: it has been delivered meanwhile, or waits in the
\* queue, or the next recovery pass will send it again.
C12_ExhaustedKeptPending ==
    IsSome(recovery_result) =>
        \A i \in 1..Len(Val(recovery_result).exhausted) :
            Val(recovery_result).exhausted[i][1] = "connectivity_check" =>
                \/ CheckRowPresent(Val(recovery_result).sheets,
                                   Val(recovery_result).exhausted[i][2])
                \/ Queued(Val(recovery_result).failed_uploads,
                          Val(recovery_result).exhausted[i])
                \/ ~SkippedNext(Val(recovery_result).last_successful_upload,
                                Val(recovery_result).exhausted[i][2])

\* C13: a recovery pass that began with an empty queue invokes no operation
\* of a record later than the first record whose check could not be
\* delivered.
C13_DrainStopsAtFailure ==
    (/\ IsSome(recovery_result)
     /\ Val(recovery_result).before.failed_uploads = <<>>
     /\ Val(recovery_result).exhausted # <<>>
     /\ Val(recovery_result).exhausted[1][1] = "connectivity_check") =>
        \A i \in 1..Len(Val(recovery_result).calls) :
            Val(recovery_result).calls[i][2]
                <= Val(recovery_result).exhausted[1][2]

\* Every call of the script succeeds.
AlwaysOk(sc) ==
    /\ sc.tail = "ok"
    /\ \A i \in 1..Len(sc.script) : sc.script[i] = "ok"

\* How often the check of second t was sent.
CheckCalls(calls, t) ==
    Cardinality({i \in 1..Len(calls) :
                    calls[i] = <<"connectivity_check", t>>})

\* C14: against a sink whose every call succeeds, a recovery pass that began
\* with an empty queue sends the check of every record not delivered before
\* exactly once and of every delivered record not at all.
C14_PassSendsUnconfirmedOnce ==
    (/\ IsSome(recovery_result)
     /\ Val(recovery_result).before.failed_uploads = <<>>
     /\ AlwaysOk(Val(recovery_result).sink)) =>
        \A i \in 1..Len(Val(recovery_result).backup) :
            CheckCalls(Val(recovery_result).calls,
                       FromIso(Val(recovery_result).backup[i].timestamp))
                = IF i <= Val(recovery_result).delivered THEN 0 ELSE 1

\* C15 as stated: every recovery pass starts in a cycle whose verdict
\* transition is Down->Up.
C15_DrainOnlyAtDownUp ==
    \A i \in 1..Len(recoveries) :
        /\ recoveries[i].cycle > 1
        /\ ~verdicts[recoveries[i].cycle - 1]
        /\ verdicts[recoveries[i].cycle]

\* The recovery passes before the i-th all started before cycle j.
NoPassSince(i, j) == \A h \in 1..(i - 1) : recoveries[h].cycle < j

\* C15 as amended: every recovery pass starts in a cycle whose verdict is Up
\* and that is a Down->Up transition or follows one with only Up verdicts
\* and no recovery pass in between.
C15_DrainAfterDownUp ==
    \A i \in 1..Len(recoveries) :
        /\ verdicts[recoveries[i].cycle]
        /\ \E j \in 2..recoveries[i].cycle :
              /\ ~verdicts[j - 1]
              /\ \A k \in j..recoveries[i].cycle : verdicts[k]
              /\ NoPassSince(i, j)

\* A recovery pass that started in an Up->Up cycle.
C15_Witness ==
    \E i \in 1..Len(recoveries) :
        /\ recoveries[i].cycle > 1
        /\ verdicts[recoveries[i].cycle - 1]
        /\ verdicts[recoveries[i].cycle]

\* C16: any two recovery passes of one process start more than the cooldown
\* window apart.
C16_DrainsApart ==
    \A i \in 1..Len(recoveries), j \in 1..Len(recoveries) :
        i < j => recoveries[j].at - recoveries[i].at > RecoveryCooldown

\* Two recovery passes, and between them a Down->Up transition inside the
\* window of the first.
C16_Witness ==
    /\ Len(recoveries) = 2
    /\ \E c \in (recoveries[1].cycle + 1)..(recoveries[2].cycle - 1) :
          ~verdicts[c - 1] /\ verdicts[c]

\* C17: the backup file holds the records of the newest check cycles, at
\* most BackupCap of them, oldest first: the append that would make it longer
\* drops exactly the oldest record.
C17_BackupCapped ==
    /\ Len(backup_file.data) <= BackupCap
    /\ Len(backup_file.data) =
           IF Len(verdicts) <= BackupCap THEN Len(verdicts) ELSE BackupCap
    /\ \A i \in 1..Len(backup_file.data) :
          /\ FromIso(backup_file.data[i].timestamp) =
                 (Len(verdicts) - Len(backup_file.data) + i - 1)
                     * CHECK_INTERVAL
          /\ backup_file.data[i].connected =
                 verdicts[Len(verdicts) - Len(backup_file.data) + i]

\* The cycle after the one that filled the file.
C17_Witness ==
    /\ Len(verdicts) = BackupCap + 1
    /\ Len(backup_file.data) = BackupCap

\* C18: the record save_local_backup had returned for when the process was
\* killed is in the backup file.
C18_AppendedSurvivesKill ==
    IsSome(appended) =>
        /\ backup_file.state = "json"
        /\ \E i \in 1..Len(backup_file.data) :
              backup_file.data[i] = Val(appended)

\* C19: after a check cycle has run save_local_backup the backup file parses,
\* whatever it held before.
C19_AppendRepairsStore == pc = "loop" => backup_file.state # "corrupt"

OneOutcomePerTarget(results, kind, behaviours) ==
    /\ Len(results) = NumTargets
    /\ \A i \in 1..Len(results) :
          /\ results[i].target = Targets(kind)[i]
          /\ results[i].success <=> behaviours[i] = "success"

\* C21: a check holds one outcome per configured target of each probe kind,
\* in configuration order; a probe that failed, timed out or raised has
\* success false, the probes after it have run all the same, and the check
\* is connected only through probes whose target answered.
C21_OneOutcomePerProbe ==
    IsSome(probes) =>
        /\ OneOutcomePerTarget(ping_results, "ping", Val(probes).ping)
        /\ OneOutcomePerTarget(http_results, "http", Val(probes).http)
        /\ OneOutcomePerTarget(dns_results, "dns", Val(probes).dns)
        /\ Val(check_result).connected =>
              /\ \E i \in 1..NumTargets : Val(probes).ping[i] = "success"
              /\ \E i \in 1..NumTargets :
                    \/ Val(probes).http[i] = "success"
                    \/ Val(probes).dns[i] = "success"

\* A check whose first ping probe raised, whose HTTP probes timed out and
\* whose first DNS probe failed, connected through the probes after them.
C21_Witness ==
    /\ IsSome(probes)
    /\ Val(probes).ping[1] = "raises"
    /\ \A i \in 1..NumTargets : Val(probes).http[i] = "timeout"
    /\ Val(probes).dns[1] = "failure"
    /\ ping_results[NumTargets].success
    /\ dns_results[NumTargets].success
    /\ Val(check_result).connected

\* C22: no OutageEnd the tracker has returned, no record of the backup file
\* and no row of the Outages sheet holds a negative duration.
C22_NoNegativeDuration ==
    /\ \A i \in 1..Len(events) :
          events[i].type = "outage_end" => events[i].duration_seconds >= 0
    /\ \A i \in 1..Len(backup_file.data) :
          (/\ IsSome(backup_file.data[i].status_change)
           /\ Val(backup_file.data[i].status_change).type = "outage_end") =>
              Val(backup_file.data[i].status_change).duration_seconds >= 0
    /\ \A i \in 1..Len(sheets["Outages"]) :
          IsSome(sheets["Outages"][i].duration_seconds) =>
              Val(sheets["Outages"][i].duration_seconds) >= 0

\* The rows of a sheet that are of this location and start time and ONGOING.
OngoingOf(rows, data) ==
    {i \in 1..Len(rows) :
        /\ rows[i].location_id = data.location_id
        /\ rows[i].start_time = data.start_time
        /\ rows[i].status = "ONGOING"}

\* The row is the complete RESOLVED row of this outage end.
IsResolvedRowOf(row, data) ==
    /\ row.location_id = data.location_id
    /\ row.start_time = data.start_time
    /\ row.end_time = Some(data.end_time)
    /\ row.duration_seconds = Some(data.duration_seconds)
    /\ row.status = "RESOLVED"

\* C23: a delivered OutageEnd has turned the first ONGOING row of its
\* location and start time into the RESOLVED row with its end time and
\* duration and left every other row as it was; with no such row it has
\* appended one complete RESOLVED row.
C23_EndUpdatesOrAppends ==
    (IsSome(end_result) /\ Val(end_result).ok) =>
        IF OngoingOf(Val(end_result).before, Val(end_result).data) # {}
        THEN /\ Len(Val(end_result).after) = Len(Val(end_result).before)
             /\ \E i \in OngoingOf(Val(end_result).before,
                                   Val(end_result).data) :
                   /\ IsResolvedRowOf(Val(end_result).after[i],
                                      Val(end_result).data)
                   /\ \A j \in 1..Len(Val(end_result).before) :
                         j # i => Val(end_result).after[j] =
                                      Val(end_result).before[j]
        ELSE /\ Len(Val(end_result).after) = Len(Val(end_result).before) + 1
             /\ IsResolvedRowOf(
                    Val(end_result).after[Len(Val(end_result).after)],
                    Val(end_result).data)
             /\ \A j \in 1..Len(Val(end_result).before) :
                   Val(end_result).after[j] = Val(end_result).before[j]

\* A delivery to a sheet that held a RESOLVED row of the same location and
\* start time but no ONGOING one: the complete row was appended.
C23_Witness ==
    /\ IsSome(end_result)
    /\ Val(end_result).ok
    /\ OngoingOf(Val(end_result).before, Val(end_result).data) = {}
    /\ \E i \in 1..Len(Val(end_result).before) :
          /\ Val(end_result).before[i].location_id = LOCATION_ID
          /\ Val(end_result).before[i].start_time = IsoUtc(0)
    /\ Len(Val(end_result).after) = Len(Val(end_result).before) + 1

\* C24: once a process that was started while an outage was open has
\* observed an Up verdict, its tracker has returned the OutageEnd of that
\* outage, naming the outage's original start.
C24_OutageEndAfterRestart ==
    (/\ IsSome(carried)
     /\ IsSome(Val(carried).outage_start_time)
     /\ \E i \in 1..Len(verdicts) : verdicts[i]) =>
        \E j \in 1..Len(events) :
            /\ events[j].type = "outage_end"
            /\ events[j].outage_start = Val(Val(carried).outage_start_time)

\* C25: the uploads that waited in the queue when the process before this
\* one ended are still pending after the restart: once a check cycle of this
\* process has delivered its own check, each of them has been delivered too
\* or waits in the queue.
C25_PendingSurvivesRestart ==
    (/\ IsSome(carried)
     /\ pc = "loop"
     /\ CheckRowPresent(sheets, clock)) =>
        \A k \in Val(carried).pending :
            k \in DeliveredKeys \/ Queued(failed_uploads, k)

\* C26: the process that an interrupt has ended made a final delivery
\* attempt for every upload that waited in the queue when the interrupt
\* arrived.
C26_FinalAttemptForAll ==
    IsSome(shutdown) => Val(shutdown).pending \subseteq Val(shutdown).attempted

\* C27: an interrupt leaves the backup file as a file that parses, unless it
\* found it otherwise.
C27_InterruptNeverCutsWrite ==
    (IsSome(shutdown) /\ Val(shutdown).file # "corrupt") =>
        backup_file.state # "corrupt"

\* The most recent change of verdict was Up->Down: some Up verdict is
\* followed by Down verdicts only, and by at least one.
LastTransitionUpDown(v) ==
    \E i \in 1..(Len(v) - 1) : v[i] /\ \A k \in (i + 1)..Len(v) : ~v[k]

\* C28: after every call of detect_status_change last_status is the verdict
\* it was called with; outage_start_time is set exactly when the most recent
\* change of verdict was Up->Down, never while last_status is Up, and then
\* no OutageEnd of that outage has been returned.
C28_OpenOutageTracksVerdicts ==
    /\ Len(verdicts) >= 1 => last_status = Some(verdicts[Len(verdicts)])
    /\ IsSome(outage_start_time) <=> LastTransitionUpDown(verdicts)
    /\ IsSome(outage_start_time) =>
          /\ last_status = Some(FALSE)
          /\ \A i \in 1..Len(events) :
                events[i].type = "outage_end" =>
                    events[i].outage_start # Val(outage_start_time)

\* A second outage is open after the first one was closed.
C28_Witness ==
    /\ IsSome(outage_start_time)
    /\ CountType(events, "outage_end") >= 1
    /\ Len(verdicts) = MaxCycles

\* The entries of the queue q whose upload has this key.
EntriesOf(q, key) ==
    {j \in 1..Len(q) : UploadKey(q[j].operation_type, q[j].data) = key}

\* C29: a pass over the queue retries every queued upload once.  An upload
\* is out of the queue afterwards only if a row of it was delivered or this
\* was its fifth failed retry (which the logger reports as given up);
\* otherwise it is still queued, once, with its retry count raised by
\* exactly one.  No upload left in the queue has a retry count above 4, and
\* against a sink that answers every call the queue is left empty.
C29_PassRetriesOnce ==
    IsSome(pass_result) =>
        /\ \A i \in 1..Len(Val(pass_result).before) :
              /\ CheckCalls(Val(pass_result).calls,
                            FromIso(Val(pass_result).before[i].data.timestamp))
                     = 1
              /\ IF EntriesOf(Val(pass_result).after,
                              UploadKey("connectivity_check",
                                        Val(pass_result).before[i].data)) = {}
                 THEN \/ CheckRowPresent(
                            Val(pass_result).sheets,
                            FromIso(Val(pass_result).before[i].data.timestamp))
                      \/ /\ Val(pass_result).before[i].retry_count + 1
                                = GiveUpRetries
                         /\ UploadKey("connectivity_check",
                                      Val(pass_result).before[i].data)
                                \in Val(pass_result).gave_up
                 ELSE \A j \in EntriesOf(Val(pass_result).after,
                                         UploadKey("connectivity_check",
                                             Val(pass_result).before[i].data)) :
                          /\ Val(pass_result).after[j] =
                                 [Val(pass_result).before[i] EXCEPT
                                     !.retry_count = @ + 1]
                          /\ Cardinality(EntriesOf(Val(pass_result).after,
                                 UploadKey("connectivity_check",
                                     Val(pass_result).before[i].data))) = 1
        /\ \A j \in 1..Len(Val(pass_result).after) :
              /\ Val(pass_result).after[j].retry_count <= GiveUpRetries - 1
              /\ \E i \in 1..Len(Val(pass_result).before) :
                    Val(pass_result).before[i].data =
                        Val(pass_result).after[j].data
        /\ AlwaysOk(Val(pass_result).sink) => Val(pass_result).after = <<>>

\* A pass over two uploads: the first, retried four times before, failed
\* again and was given up; the second failed and stays queued with count 1.
C29_Witness ==
    /\ IsSome(pass_result)
    /\ Len(Val(pass_result).before) = 2
    /\ Val(pass_result).before[1].retry_count = GiveUpRetries - 1
    /\ Val(pass_result).before[2].retry_count = 0
    /\ Val(pass_result).gave_up # {}
    /\ Len(Val(pass_result).after) = 1
    /\ Val(pass_result).after[1].retry_count = 1

\* C30: once the sink answers every call and the loop keeps running, the
\* queue of failed uploads becomes empty, and it is empty after every cycle
\* from the first healed one on: the first upload that goes through has the
\* whole queue reprocessed.
C30_QueueDrainsOnceHealed ==
    /\ [](pc = "loop" /\ healed < MaxHealedCycles
            => <>(healed > 0 /\ failed_uploads = <<>>))
    /\ [][healed' > 0 => failed_uploads' = <<>>]_vars

\* The first healed cycle has emptied the queue: rows of earlier cycles
\* were appended to the sheet after the row of this cycle's check, and no
\* recovery pass has run.
C30_Witness ==
    /\ healed = 1
    /\ failed_uploads = <<>>
    /\ recoveries = <<>>
    /\ \E j \in 1..(Len(sheets["Connectivity_Checks"]) - 1) :
          /\ FromIso(sheets["Connectivity_Checks"][j].timestamp) = clock
          /\ FromIso(sheets["Connectivity_Checks"][j + 1].timestamp) < clock


\* What a store left is the queue before it, cut to its newest QueueKeep
\* entries if it held QueueCap, and then the new record, in that order.
NewestKeptThenNew(r) ==
    /\ r.after[Len(r.after)].data = r.data
    /\ r.after[Len(r.after)].retry_count = 0
    /\ IF Len(r.before) >= QueueCap
       THEN /\ Len(r.after) = QueueKeep + 1
            /\ \A i \in 1..QueueKeep :
                  r.after[i] = r.before[Len(r.before) - QueueKeep + i]
       ELSE /\ Len(r.after) = Len(r.before) + 1
            /\ \A i \in 1..Len(r.before) : r.after[i] = r.before[i]

\* C31: after any sequence of failed sends the pending queue holds at most
\* QueueCap (100) records, and a store onto a queue that holds QueueCap
\* leaves its newest QueueKeep (50) records and then the new one, in order.
C31_QueueCapped ==
    /\ Len(failed_uploads) <= QueueCap
    /\ IsSome(store_result) => NewestKeptThenNew(Val(store_result))

\* A store met a queue holding QueueCap records and cut it.
C31_Witness ==
    /\ IsSome(store_result)
    /\ Len(Val(store_result).before) = QueueCap
    /\ Len(failed_uploads) = QueueKeep + 1
    /\ evicted # {}

\* C32: when a check cycle calls save_local_backup for its record it has
\* invoked no operation on the sink yet: neither the outage start nor the
\* outage end of its status change has been offered.
C32_SavedBeforeOffered == offered = <<>>

\* C33: when the first process was killed in a check cycle, inside
\* save_local_backup or right after it, the backup file parses and still
\* holds a record for each of the cycles completed before that one.
C33_KillKeepsEarlierRecords ==
    (pc = "exited" /\ shutdown = None /\ restarts = 0) =>
        /\ backup_file.state # "corrupt"
        /\ Len(backup_file.data) >= Len(verdicts) - 1

\* The flag is due: some Down->Up transition was followed by Up verdicts
\* only and by no recovery pass, in its own cycle or later.
RestoredAndNotDrained ==
    \E j \in DownUpAt(verdicts) :
        /\ \A k \in (j + 1)..Len(verdicts) : verdicts[k]
        /\ \A h \in 1..Len(recoveries) : recoveries[h].cycle <= j

\* C34: connectivity_restored_recently is set only while last_status is Up:
\* it is set exactly when a Down->Up transition has been followed by neither
\* an Up->Down transition nor a recovery pass, and every recovery pass runs
\* in a cycle whose verdict is connected.
C34_RestoredOnlyWhileUp ==
    /\ connectivity_restored_recently => last_status = Some(TRUE)
    /\ connectivity_restored_recently <=> RestoredAndNotDrained
    /\ \A i \in 1..Len(recoveries) : verdicts[recoveries[i].cycle]

\* The flag was cleared by a recovery pass, set again by a later Down->Up
\* transition inside the cooldown window, so that no pass ran, and cleared by
\* the Up->Down transition that followed.
C34_Witness ==
    /\ ~connectivity_restored_recently
    /\ Len(recoveries) = 1
    /\ \E j \in DownUpAt(verdicts) :
          /\ recoveries[1].cycle <= j
          /\ (j + 1) \in UpDownAt(verdicts)

\* The rows the sheet held before a delivery that are not the same after it.
ChangedRows(r) == {i \in 1..Len(r.before) : r.after[i] # r.before[i]}

\* The delivery changed no row but ONGOING ones of the event's location and
\* start time, and left the location and the start time of those.
OnlyOngoingOfEventChanged(r) ==
    \A i \in ChangedRows(r) :
        /\ r.before[i].status = "ONGOING"
        /\ r.before[i].location_id = r.data.location_id
        /\ r.before[i].start_time = r.data.start_time
        /\ r.after[i].location_id = r.before[i].location_id
        /\ r.after[i].start_time = r.before[i].start_time

\* C35: a delivery of an OutageEnd, completed or not, removes no row of the
\* Outages sheet and changes at most one of the rows it held, which was
\* ONGOING with the event's location and start time and keeps both; a
\* RESOLVED row is the same afterwards.
C35_EndChangesOneOngoingRow ==
    IsSome(end_result) =>
        /\ Len(Val(end_result).after) >= Len(Val(end_result).before)
        /\ Cardinality(ChangedRows(Val(end_result))) <= 1
        /\ OnlyOngoingOfEventChanged(Val(end_result))
        /\ \A i \in 1..Len(Val(end_result).before) :
              Val(end_result).before[i].status = "RESOLVED" =>
                  Val(end_result).after[i] = Val(end_result).before[i]

\* A delivery to a sheet that held two ONGOING rows of the event's outage
\* and a RESOLVED one: one row was changed.
C35_Witness ==
    /\ IsSome(end_result)
    /\ Val(end_result).ok
    /\ Cardinality(OngoingOf(Val(end_result).before,
                             Val(end_result).data)) = 2
    /\ \E i \in 1..Len(Val(end_result).before) :
          /\ Val(end_result).before[i].status = "RESOLVED"
          /\ Val(end_result).before[i].location_id = LOCATION_ID
          /\ Val(end_result).before[i].start_time = IsoUtc(0)
    /\ Cardinality(ChangedRows(Val(end_result))) = 1

=============================================================================
